---- MODULE Spec2Model ----
(***************************************************************************)
(* Model of BusinessMetricsCalculator (src/businesscalculator.py).         *)
(*                                                                         *)
(* Numbers are rationals <<n, d>> in lowest terms with d > 0.  Python's    *)
(* float arithmetic is modelled as binary floating point with round to     *)
(* nearest, ties to even, on a significand of Prec bits (binary64 has 53); *)
(* the exponent range is not bounded, so overflow to inf and underflow are *)
(* outside the model.  Every value the model feeds to the calculator is    *)
(* representable on Prec bits.                                             *)
(***************************************************************************)
EXTENDS Integers, Sequences, FiniteSets

VARIABLES heap, callerRef, self_coefficients, last, threads, frames

vars == <<heap, callerRef, self_coefficients, last, threads, frames>>

-----------------------------------------------------------------------------
(* Bounds of the model *)

\* bits of significand of the modelled float format
Prec == 11
\* longest cash-flow / cash-inflow list
MaxLen == 3
\* threads calling methods of the one instance
NThreads == 2

-----------------------------------------------------------------------------
(* Exact rational arithmetic *)

Abs(x) == IF x < 0 THEN -x ELSE x

RECURSIVE Gcd(_, _)
Gcd(a, b) == IF b = 0 THEN a ELSE Gcd(b, a % b)

RECURSIVE Pow2(_)
Pow2(k) == IF k = 0 THEN 1 ELSE 2 * Pow2(k - 1)

\* the rational n/d (d # 0) in lowest terms, sign in the numerator
Norm(n, d) ==
    LET g == Gcd(Abs(n), Abs(d))
        s == IF d < 0 THEN -1 ELSE 1
    IN  <<s * (n \div g), Abs(d) \div g>>

Q(n) == <<n, 1>>

QAdd(a, b) == Norm(a[1] * b[2] + b[1] * a[2], a[2] * b[2])
QSub(a, b) == Norm(a[1] * b[2] - b[1] * a[2], a[2] * b[2])
QMul(a, b) == Norm(a[1] * b[1], a[2] * b[2])
QDiv(a, b) == Norm(a[1] * b[2], a[2] * b[1])
QNeg(a)    == <<-a[1], a[2]>>
QAbs(a)    == <<Abs(a[1]), a[2]>>

QLt(a, b)  == a[1] * b[2] < b[1] * a[2]
QLe(a, b)  == a[1] * b[2] <= b[1] * a[2]
QIsZero(a) == a[1] = 0
QIsInt(a)  == a[2] = 1

-----------------------------------------------------------------------------
(* Python float: the result of an operation is the exact result rounded    *)
(* to Prec significant bits, ties to even.                                 *)

\* n/d >= 0 rounded to the nearest integer, ties to even
RoundHalfEven(n, d) ==
    LET q == n \div d
        r == n % d
    IN  IF 2 * r > d \/ (2 * r = d /\ q % 2 = 1) THEN q + 1 ELSE q

\* a significand m has Prec bits: SigLo <= m < SigHi
SigHi == Pow2(Prec)
SigLo == Pow2(Prec - 1)

\* n/d > 0 rounded to Prec bits; up and down carry the power of two taken out
RECURSIVE RoundPos(_, _, _, _)
RoundPos(n, d, up, down) ==
    IF n >= SigHi * d THEN RoundPos(n, 2 * d, 2 * up, down)
    ELSE IF n < SigLo * d THEN RoundPos(2 * n, d, up, 2 * down)
    ELSE Norm(RoundHalfEven(n, d) * up, down)

Fl(q) ==
    IF q[1] = 0 THEN <<0, 1>>
    ELSE IF q[1] > 0 THEN RoundPos(q[1], q[2], 1, 1)
    ELSE QNeg(RoundPos(-q[1], q[2], 1, 1))

FAdd(a, b) == Fl(QAdd(a, b))
FSub(a, b) == Fl(QSub(a, b))
FMul(a, b) == Fl(QMul(a, b))
\* true division, b # 0
FDiv(a, b) == Fl(QDiv(a, b))

\* the largest m in lo..hi with m*m*d <= n (lo satisfies it)
RECURSIVE ISqrt(_, _, _, _)
ISqrt(lo, hi, n, d) ==
    IF lo = hi THEN lo
    ELSE LET mid == (lo + hi + 1) \div 2
         IN  IF mid * mid * d <= n THEN ISqrt(mid, hi, n, d)
             ELSE ISqrt(lo, mid - 1, n, d)

\* sqrt(n/d), n/d > 0, rounded to Prec bits; up and down carry the power of two
RECURSIVE SqrtPos(_, _, _, _)
SqrtPos(n, d, up, down) ==
    IF n >= SigHi * SigHi * d THEN SqrtPos(n, 4 * d, 2 * up, down)
    ELSE IF n < SigLo * SigLo * d THEN SqrtPos(4 * n, d, up, 2 * down)
    ELSE LET m == ISqrt(SigLo, SigHi - 1, n, d)
             \* n/d - m*m against m + 1/4, that is sqrt(n/d) against m + 1/2
             twice == 4 * (n - m * m * d)
             half == (4 * m + 1) * d
             r == IF twice > half \/ (twice = half /\ m % 2 = 1) THEN m + 1 ELSE m
         IN  Norm(r * up, down)

FSqrt(q) == SqrtPos(q[1], q[2], 1, 1)

\* float ** int, the exponent a small non-negative integer
RECURSIVE QPowNat(_, _)
QPowNat(b, i) == IF i = 0 THEN Q(1) ELSE QMul(b, QPowNat(b, i - 1))

FPowNat(b, i) == Fl(QPowNat(b, i))

-----------------------------------------------------------------------------
(* Outcomes of a call: a returned value or a raised exception *)

\* Python's None, the value of a function that falls off its end
None == <<>>

Return(v) == [kind |-> "return", val |-> v]
Raise(exc, msg) == [kind |-> "raise", exc |-> exc, msg |-> msg]

\* no call has returned to the caller yet
NoCall == [op |-> "-", args |-> <<>>, out |-> [kind |-> "-"]]

Call(op, args, out) == [op |-> op, args |-> args, out |-> out]

\* a complex number: what float ** float gives for a negative base and a
\* fractional exponent
Complex == <<"complex">>

\* x ** y for the exponents 1/number_of_periods of the model: 1, -1, 1/2, -1/2
RealPow(x, y) ==
    IF y = Q(1) THEN x
    ELSE IF y = Q(-1) THEN Fl(QDiv(Q(1), x))
    ELSE IF y = <<1, 2>> THEN (IF QIsZero(x) THEN Q(0) ELSE FSqrt(x))
    ELSE FSqrt(QDiv(Q(1), x))

\* float ** float
FloatPow(x, y) ==
    IF QIsZero(y) THEN Return(Q(1))
    ELSE IF QIsZero(x) /\ QLt(y, Q(0))
    THEN Raise("ZeroDivisionError", "0.0 cannot be raised to a negative power")
    ELSE IF QLt(x, Q(0)) /\ ~QIsInt(y) THEN Return(Complex)
    ELSE Return(RealPow(x, y))

-----------------------------------------------------------------------------
(* The coefficient dictionary and the constructor *)

\* a float literal of the source, as Python parses it
Lit(n, d) == Fl(Norm(n, d))

ObjIds == {"dict1"}

Keys == {"investment_variable", "price"}

\* a name that is a key of no dictionary
UnknownName == "advertising"

\* the coefficients of the demonstration block: 0.1 and -0.05
CoefVals == {Lit(1, 10), Lit(-1, 20)}

Tables == UNION {[K -> CoefVals] : K \in SUBSET Keys}

CtorArgs == {[is_dict |-> TRUE, ref |-> o] : o \in ObjIds}
            \cup {[is_dict |-> FALSE, ref |-> "list1"]}

\* __init__: keeps the reference it is given, it does not copy the dictionary
Construct(coefficients) ==
    IF ~coefficients.is_dict
    THEN Raise("ValueError", "Coefficients must be provided as a dictionary.")
    ELSE Return(coefficients.ref)

\* self.coefficients[key]
dict_getitem(d, key) ==
    IF key \in DOMAIN d THEN Return(d[key]) ELSE Raise("KeyError", key)

-----------------------------------------------------------------------------
(* The methods, as functions of their arguments *)

\* calculate_roi without the division by the amount
calculate_roi_nodiv(coefficients, investment_variable, investment_amount) ==
    LET looked == dict_getitem(coefficients, investment_variable)
    IN  IF looked.kind = "raise"
        THEN Raise("ValueError", "not found in coefficients dictionary.")
        ELSE IF QIsZero(investment_amount)
        THEN Raise("ValueError", "Investment amount cannot be zero.")
        ELSE Return(FMul(FMul(looked.val, investment_amount), Q(100)))

\* calculate_roi with the amount checked before the lookup
calculate_roi_zero_first(coefficients, investment_variable, investment_amount) ==
    LET looked == dict_getitem(coefficients, investment_variable)
    IN  IF QIsZero(investment_amount)
        THEN Raise("ValueError", "Investment amount cannot be zero.")
        ELSE IF looked.kind = "raise"
        THEN Raise("ValueError", "not found in coefficients dictionary.")
        ELSE Return(FMul(FDiv(FMul(looked.val, investment_amount),
                              investment_amount), Q(100)))

calculate_roi(coefficients, investment_variable, investment_amount) ==
    LET looked == dict_getitem(coefficients, investment_variable)
    IN  IF looked.kind = "raise"
        THEN Raise("ValueError", "not found in coefficients dictionary.")
        ELSE IF QIsZero(investment_amount)
        THEN Raise("ValueError", "Investment amount cannot be zero.")
        ELSE LET coefficient == looked.val
                 predicted_increase == FMul(coefficient, investment_amount)
                 roi == FMul(FDiv(predicted_increase, investment_amount), Q(100))
             IN  Return(roi)

\* calculate_margin with the subtraction the wrong way round
calculate_margin_sign(revenue, cost) ==
    IF QIsZero(revenue)
    THEN Raise("ValueError", "Revenue cannot be zero.")
    ELSE Return(FMul(FDiv(FSub(cost, revenue), revenue), Q(100)))

calculate_margin(revenue, cost) ==
    IF QIsZero(revenue)
    THEN Raise("ValueError", "Revenue cannot be zero.")
    ELSE Return(FMul(FDiv(FSub(revenue, cost), revenue), Q(100)))

calculate_growth_rate(previous_value, current_value) ==
    IF QIsZero(previous_value)
    THEN Raise("ValueError", "Previous value cannot be zero.")
    ELSE Return(FMul(FDiv(FSub(current_value, previous_value), previous_value), Q(100)))

\* calculate_cltv with the bounds of the margin excluded
calculate_cltv_strict(average_purchase_value, purchase_frequency, customer_lifetime, profit_margin) ==
    IF QLe(profit_margin, Q(0)) \/ QLe(Q(100), profit_margin)
    THEN Raise("ValueError", "Profit margin must be between 0 and 100.")
    ELSE Return(FMul(FMul(FMul(average_purchase_value, purchase_frequency),
                          customer_lifetime),
                     FDiv(profit_margin, Q(100))))

calculate_cltv(average_purchase_value, purchase_frequency, customer_lifetime, profit_margin) ==
    IF QLt(profit_margin, Q(0)) \/ QLt(Q(100), profit_margin)
    THEN Raise("ValueError", "Profit margin must be between 0 and 100.")
    ELSE Return(FMul(FMul(FMul(average_purchase_value, purchase_frequency),
                          customer_lifetime),
                     FDiv(profit_margin, Q(100))))

calculate_inventory_turnover(cost_of_goods_sold, average_inventory_value) ==
    IF QIsZero(average_inventory_value)
    THEN Raise("ValueError", "Average inventory value cannot be zero.")
    ELSE Return(FDiv(cost_of_goods_sold, average_inventory_value))

calculate_conversion_rate(number_of_conversions, total_visitors) ==
    IF QIsZero(total_visitors)
    THEN Raise("ValueError", "Total visitors cannot be zero.")
    ELSE Return(FMul(FDiv(number_of_conversions, total_visitors), Q(100)))

calculate_operating_leverage(contribution_margin, net_operating_income) ==
    IF QIsZero(net_operating_income)
    THEN Raise("ValueError", "Net operating income cannot be zero.")
    ELSE Return(FDiv(contribution_margin, net_operating_income))

calculate_quick_ratio(cash, accounts_receivable, current_liabilities) ==
    IF QIsZero(current_liabilities)
    THEN Raise("ValueError", "Current liabilities cannot be zero.")
    ELSE Return(FDiv(FAdd(cash, accounts_receivable), current_liabilities))

calculate_roa(net_income, total_assets) ==
    IF QIsZero(total_assets)
    THEN Raise("ValueError", "Total assets cannot be zero.")
    ELSE Return(FMul(FDiv(net_income, total_assets), Q(100)))

calculate_churn_rate(number_of_churned_customers, total_customers_at_start) ==
    IF QIsZero(total_customers_at_start)
    THEN Raise("ValueError", "Total customers at start cannot be zero.")
    ELSE Return(FMul(FDiv(number_of_churned_customers, total_customers_at_start), Q(100)))

calculate_roe(net_income, shareholders_equity) ==
    IF QIsZero(shareholders_equity)
    THEN Raise("ValueError", "Shareholders' equity cannot be zero.")
    ELSE Return(FMul(FDiv(net_income, shareholders_equity), Q(100)))

calculate_current_ratio(current_assets, current_liabilities) ==
    IF QIsZero(current_liabilities)
    THEN Raise("ValueError", "Current liabilities cannot be zero.")
    ELSE Return(FDiv(current_assets, current_liabilities))

calculate_cac(marketing_expenses, number_of_new_customers) ==
    IF QIsZero(number_of_new_customers)
    THEN Raise("ValueError", "Number of new customers cannot be zero.")
    ELSE Return(FDiv(marketing_expenses, number_of_new_customers))

calculate_customer_retention_rate(number_of_customers_at_end, number_of_new_customers, total_customers_at_start) ==
    IF QIsZero(total_customers_at_start)
    THEN Raise("ValueError", "Total customers at start cannot be zero.")
    ELSE Return(FMul(FDiv(FSub(number_of_customers_at_end, number_of_new_customers), total_customers_at_start), Q(100)))

calculate_gross_profit_margin(gross_profit, revenue) ==
    IF QIsZero(revenue)
    THEN Raise("ValueError", "Revenue cannot be zero.")
    ELSE Return(FMul(FDiv(gross_profit, revenue), Q(100)))

calculate_eps(net_income, number_of_shares) ==
    IF QIsZero(number_of_shares)
    THEN Raise("ValueError", "Number of shares cannot be zero.")
    ELSE Return(FDiv(net_income, number_of_shares))

calculate_pe_ratio(market_price_per_share, earnings_per_share) ==
    IF QIsZero(earnings_per_share)
    THEN Raise("ValueError", "Earnings per share cannot be zero.")
    ELSE Return(FDiv(market_price_per_share, earnings_per_share))

calculate_debt_to_equity(total_debt, shareholders_equity) ==
    IF QIsZero(shareholders_equity)
    THEN Raise("ValueError", "Shareholders' equity cannot be zero.")
    ELSE Return(FDiv(total_debt, shareholders_equity))

calculate_ltv_cac_ratio(lifetime_value, customer_acquisition_cost) ==
    IF QIsZero(customer_acquisition_cost)
    THEN Raise("ValueError", "Customer acquisition cost cannot be zero.")
    ELSE Return(FDiv(lifetime_value, customer_acquisition_cost))

calculate_aov(total_revenue, number_of_orders) ==
    IF QIsZero(number_of_orders)
    THEN Raise("ValueError", "Number of orders cannot be zero.")
    ELSE Return(FDiv(total_revenue, number_of_orders))

calculate_lead_conversion_rate(number_of_leads_converted, total_leads) ==
    IF QIsZero(total_leads)
    THEN Raise("ValueError", "Total number of leads cannot be zero.")
    ELSE Return(FMul(FDiv(number_of_leads_converted, total_leads), Q(100)))

calculate_cpl(marketing_expenses, total_leads) ==
    IF QIsZero(total_leads)
    THEN Raise("ValueError", "Total number of leads cannot be zero.")
    ELSE Return(FDiv(marketing_expenses, total_leads))

calculate_employee_turnover_rate(number_of_leavers, average_number_of_employees) ==
    IF QIsZero(average_number_of_employees)
    THEN Raise("ValueError", "Average number of employees cannot be zero.")
    ELSE Return(FMul(FDiv(number_of_leavers, average_number_of_employees), Q(100)))

measure_employee_productivity(total_output, total_input) ==
    IF QIsZero(total_input)
    THEN Raise("ValueError", "Total input cannot be zero.")
    ELSE Return(FDiv(total_output, total_input))

\* calculate_breakeven_point with the subtraction the wrong way round
calculate_breakeven_point_swapped(fixed_costs, variable_cost_per_unit, selling_price_per_unit) ==
    IF QLe(selling_price_per_unit, variable_cost_per_unit)
    THEN Raise("ValueError",
               "Selling price per unit must be greater than variable cost per unit.")
    ELSE Return(FDiv(fixed_costs, FSub(variable_cost_per_unit, selling_price_per_unit)))

calculate_breakeven_point(fixed_costs, variable_cost_per_unit, selling_price_per_unit) ==
    IF QLe(selling_price_per_unit, variable_cost_per_unit)
    THEN Raise("ValueError",
               "Selling price per unit must be greater than variable cost per unit.")
    ELSE Return(FDiv(fixed_costs, FSub(selling_price_per_unit, variable_cost_per_unit)))

calculate_cagr(initial_value, final_value, number_of_periods) ==
    IF QIsZero(initial_value)
    THEN Raise("ValueError", "Initial value cannot be zero.")
    ELSE IF QIsZero(number_of_periods)
    THEN Raise("ValueError", "Number of periods cannot be zero.")
    ELSE LET power == FloatPow(FDiv(final_value, initial_value),
                               FDiv(Q(1), number_of_periods))
         IN  IF power.kind = "raise" THEN power
             ELSE IF power.val = Complex THEN Return(Complex)
             ELSE Return(FMul(FSub(power.val, Q(1)), Q(100)))

\* npv_sum with the periods counted from 1: enumerate(cash_flows, 1)
RECURSIVE npv_sum_from1(_, _, _, _)
npv_sum_from1(items, discount_rate, i, acc) ==
    IF i >= Len(items) THEN acc
    ELSE LET factor == FPowNat(FAdd(Q(1), FDiv(discount_rate, Q(100))), i + 1)
         IN  npv_sum_from1(items, discount_rate, i + 1,
                           FAdd(acc, FDiv(items[i + 1], factor)))

\* sum(cf / (1 + discount_rate / 100) ** i for i, cf in enumerate(cash_flows)),
\* from index i (0-based) on, added to acc
RECURSIVE npv_sum(_, _, _, _)
npv_sum(items, discount_rate, i, acc) ==
    IF i >= Len(items) THEN acc
    ELSE LET factor == FPowNat(FAdd(Q(1), FDiv(discount_rate, Q(100))), i)
         IN  npv_sum(items, discount_rate, i + 1, FAdd(acc, FDiv(items[i + 1], factor)))

\* calculate_npv with the bounds of the rate excluded
calculate_npv_strict(cash_flows, discount_rate) ==
    IF ~cash_flows.is_list \/ Len(cash_flows.items) = 0
    THEN Raise("ValueError", "Cash flows must be a non-empty list.")
    ELSE IF QLe(discount_rate, Q(0)) \/ QLe(Q(100), discount_rate)
    THEN Raise("ValueError", "Discount rate must be between 0 and 100.")
    ELSE Return(npv_sum(cash_flows.items, discount_rate, 0, Q(0)))

\* cash_flows is [is_list, items]: the argument and whether it is a list
calculate_npv(cash_flows, discount_rate) ==
    IF ~cash_flows.is_list \/ Len(cash_flows.items) = 0
    THEN Raise("ValueError", "Cash flows must be a non-empty list.")
    ELSE IF QLt(discount_rate, Q(0)) \/ QLt(Q(100), discount_rate)
    THEN Raise("ValueError", "Discount rate must be between 0 and 100.")
    ELSE Return(npv_sum(cash_flows.items, discount_rate, 0, Q(0)))

\* the loop of calculate_payback_period from period (1-based) on
RECURSIVE payback_loop(_, _, _, _)
payback_loop(initial_investment, items, period, cumulative_cash_inflows) ==
    IF period > Len(items) THEN Return(None)
    ELSE LET cumulative == FAdd(cumulative_cash_inflows, items[period])
         IN  IF QLe(initial_investment, cumulative) THEN Return(Q(period))
             ELSE payback_loop(initial_investment, items, period + 1, cumulative)

\* the loop with > in place of >=
RECURSIVE payback_loop_strict(_, _, _, _)
payback_loop_strict(initial_investment, items, period, cumulative_cash_inflows) ==
    IF period > Len(items) THEN Return(None)
    ELSE LET cumulative == FAdd(cumulative_cash_inflows, items[period])
         IN  IF QLt(initial_investment, cumulative) THEN Return(Q(period))
             ELSE payback_loop_strict(initial_investment, items, period + 1, cumulative)

\* calculate_payback_period comparing with > in place of >=
calculate_payback_period_strict(initial_investment, cash_inflows) ==
    IF ~cash_inflows.is_list \/ Len(cash_inflows.items) = 0
    THEN Raise("ValueError", "Cash inflows must be a non-empty list.")
    ELSE payback_loop_strict(initial_investment, cash_inflows.items, 1, Q(0))

\* calculate_payback_period raising when the investment is never recovered
calculate_payback_period_raises(initial_investment, cash_inflows) ==
    IF ~cash_inflows.is_list \/ Len(cash_inflows.items) = 0
    THEN Raise("ValueError", "Cash inflows must be a non-empty list.")
    ELSE LET found == payback_loop(initial_investment, cash_inflows.items, 1, Q(0))
         IN  IF found.val = None
             THEN Raise("ValueError", "Investment is never recovered.")
             ELSE found

calculate_payback_period(initial_investment, cash_inflows) ==
    IF ~cash_inflows.is_list \/ Len(cash_inflows.items) = 0
    THEN Raise("ValueError", "Cash inflows must be a non-empty list.")
    ELSE payback_loop(initial_investment, cash_inflows.items, 1, Q(0))

\* A date text is a sequence of one-character strings.
Digits == {"0", "1", "2", "3", "4", "5", "6", "7", "8", "9"}

DigitVal(c) ==
    CASE c = "0" -> 0 [] c = "1" -> 1 [] c = "2" -> 2 [] c = "3" -> 3 [] c = "4" -> 4
      [] c = "5" -> 5 [] c = "6" -> 6 [] c = "7" -> 7 [] c = "8" -> 8 [] c = "9" -> 9

\* the character at position i, or "" past the end
CharAt(text, i) == IF i \in 1..Len(text) THEN text[i] ELSE ""

NoMatch == [ok |-> FALSE, val |-> 0, next |-> 0]

Matched(val, next) == [ok |-> TRUE, val |-> val, next |-> next]

\* %Y at position i: \d\d\d\d
MatchYear(text, i) ==
    IF \A k \in 0..3 : CharAt(text, i + k) \in Digits
    THEN Matched(1000 * DigitVal(text[i]) + 100 * DigitVal(text[i + 1])
                     + 10 * DigitVal(text[i + 2]) + DigitVal(text[i + 3]),
                 i + 4)
    ELSE NoMatch

\* %m at position i, a "-" following: 1[0-2]|0[1-9]|[1-9]
MatchMonth(text, i) ==
    LET a == CharAt(text, i)
        b == CharAt(text, i + 1)
    IN  IF a = "1" /\ b \in {"0", "1", "2"} /\ CharAt(text, i + 2) = "-"
        THEN Matched(10 + DigitVal(b), i + 2)
        ELSE IF a = "0" /\ b \in Digits \ {"0"} /\ CharAt(text, i + 2) = "-"
        THEN Matched(DigitVal(b), i + 2)
        ELSE IF a \in Digits \ {"0"} /\ b = "-"
        THEN Matched(DigitVal(a), i + 1)
        ELSE NoMatch

\* %d at position i, the last directive: 3[0-1]|[1-2]\d|0[1-9]|[1-9]| [1-9]
MatchDay(text, i) ==
    LET a == CharAt(text, i)
        b == CharAt(text, i + 1)
    IN  IF a = "3" /\ b \in {"0", "1"} THEN Matched(30 + DigitVal(b), i + 2)
        ELSE IF a \in {"1", "2"} /\ b \in Digits
        THEN Matched(10 * DigitVal(a) + DigitVal(b), i + 2)
        ELSE IF a = "0" /\ b \in Digits \ {"0"} THEN Matched(DigitVal(b), i + 2)
        ELSE IF a \in Digits \ {"0"} THEN Matched(DigitVal(a), i + 1)
        ELSE IF a = " " /\ b \in Digits \ {"0"} THEN Matched(DigitVal(b), i + 2)
        ELSE NoMatch

IsLeap(y) == y % 4 = 0 /\ (y % 100 # 0 \/ y % 400 = 0)

DaysInMonth(y, m) ==
    IF m = 2 THEN (IF IsLeap(y) THEN 29 ELSE 28)
    ELSE IF m \in {4, 6, 9, 11} THEN 30 ELSE 31

RECURSIVE DaysBeforeMonth(_, _)
DaysBeforeMonth(y, m) ==
    IF m = 1 THEN 0 ELSE DaysBeforeMonth(y, m - 1) + DaysInMonth(y, m - 1)

\* the proleptic Gregorian ordinal of a date, 0001-01-01 being day 1
Ordinal(date) ==
    LET y == date.year - 1
    IN  y * 365 + (y \div 4) - (y \div 100) + (y \div 400)
        + DaysBeforeMonth(date.year, date.month) + date.day

\* datetime.strptime(text, '%Y-%m-%d')
strptime(text) ==
    LET y == MatchYear(text, 1)
        m == IF y.ok /\ CharAt(text, y.next) = "-"
             THEN MatchMonth(text, y.next + 1) ELSE NoMatch
        d == IF m.ok THEN MatchDay(text, m.next + 1) ELSE NoMatch
    IN  IF ~d.ok
        THEN Raise("ValueError", "time data does not match format")
        ELSE IF d.next # Len(text) + 1
        THEN Raise("ValueError", "unconverted data remains")
        ELSE IF y.val < 1
        THEN Raise("ValueError", "year is out of range")
        ELSE IF d.val > DaysInMonth(y.val, m.val)
        THEN Raise("ValueError", "day is out of range for month")
        ELSE Return([year |-> y.val, month |-> m.val, day |-> d.val])

calculate_time_to_market(start_date, launch_date) ==
    LET start == strptime(start_date)
        launch == strptime(launch_date)
    IN  IF start.kind = "raise" \/ launch.kind = "raise"
        THEN Raise("ValueError", "Invalid date format. Use 'YYYY-MM-DD'.")
        ELSE Return(Q(Ordinal(launch.val) - Ordinal(start.val)))

analyze_nps(promoters, passives, detractors) ==
    LET total_respondents == FAdd(FAdd(promoters, passives), detractors)
    IN  IF QIsZero(total_respondents)
        THEN Raise("ValueError", "Total number of respondents cannot be zero.")
        ELSE Return(FMul(FDiv(FSub(promoters, detractors), total_respondents), Q(100)))

-----------------------------------------------------------------------------
(* Inputs *)

\* investment amounts for calculate_roi
Amounts == {Q(-3), Q(0), Q(1), Q(3), Q(1000)}

\* arguments of the ratio methods
Nums == {Q(-10), Q(0), Q(5), Q(10), Q(100)}

\* initial and final values for calculate_cagr: their quotients are exact
CagrVals == {Q(-8), Q(0), Q(2), Q(4), Q(8)}

Periods == {Q(-2), Q(-1), Q(0), Q(1), Q(2)}

FixedCosts == {Q(0), Q(500), Q(1000)}

UnitPrices == {Q(0), Q(10), Q(50), Q(60)}

FlowVals == {Q(-200), Q(100), Q(200), Q(300), Q(500)}

Investments == {Q(0), Q(300), Q(1000)}

Rates == {Q(-1), Q(0), Q(50), Q(100), Q(101)}

\* arguments of calculate_cltv
PurchaseValues == {Q(-10), Q(0), Q(3), Q(35), Q(100)}

Frequencies == {Q(1), Q(2)}

Lifetimes == {Q(1), Q(5)}

Margins == {Q(-1), Q(0), Q(10), Q(20), Q(100), Q(101)}

\* date texts: well formed, not dates, not in the format, and not zero-padded
DateTexts ==
    {<<"2", "0", "2", "2", "-", "0", "1", "-", "0", "1">>,
     <<"2", "0", "2", "2", "-", "0", "1", "-", "3", "0">>,
     <<"2", "0", "2", "1", "-", "1", "2", "-", "3", "1">>,
     <<"2", "0", "2", "4", "-", "0", "2", "-", "2", "9">>,
     <<"2", "0", "2", "4", "-", "0", "3", "-", "0", "1">>,
     <<"2", "0", "2", "3", "-", "0", "2", "-", "2", "9">>,
     <<"2", "0", "2", "2", "-", "1", "3", "-", "0", "1">>,
     <<"2", "0", "2", "2", "/", "0", "1", "/", "0", "1">>,
     <<"2", "0", "2", "2", "-", "0", "1", "-", "0", "1", "1">>,
     <<"0", "0", "0", "0", "-", "0", "1", "-", "0", "1">>,
     <<"2", "0", "2", "2", "-", "1", "-", "1">>,
     <<"2", "0", "2", "2", "-", "0", "1", "-", " ", "1">>,
     <<>>}

SeqsUpTo(n) == UNION {[1..k -> FlowVals] : k \in 0..n}

\* list arguments, and arguments that are sequences but not lists (tuples)
ListArgs == {[is_list |-> TRUE, items |-> l] : l \in SeqsUpTo(MaxLen)}
            \cup {[is_list |-> FALSE, items |-> l] : l \in SeqsUpTo(1)}

-----------------------------------------------------------------------------
(* State machine: the caller holds the dictionary it passed to the         *)
(* constructor (callerRef), the instance holds self.coefficients, and last *)
(* is the call that has just returned to the caller.  threads and frames   *)
(* are the calls in progress when several threads use the instance.        *)

Threads == 1..NThreads

\* a thread that is in no call
IdleThread == [pc |-> "idle", op |-> "-", args |-> <<>>, out |-> [kind |-> "-"],
               table0 |-> <<>>]

\* the local variables of a call before it assigns them
FreshFrame == [coefficient |-> Q(0), period |-> 0, cumulative_cash_inflows |-> Q(0)]

\* the local variables kept in one place for all calls, as attributes of the
\* instance would be
FrameOfInstance(t) == 1

\* the frame that holds the local variables of the call thread t is in: every
\* call has a frame of its own
FrameOf(t) == t

Init ==
    /\ threads = [t \in Threads |-> IdleThread]
    /\ frames = [f \in Threads |-> FreshFrame]
    /\ heap \in [ObjIds -> Tables]
    /\ callerRef \in ObjIds
    /\ \E arg \in CtorArgs :
          /\ arg.ref = callerRef
          /\ Construct(arg).kind = "return"
          /\ self_coefficients = Construct(arg).val
    /\ last = NoCall

Idle == last = NoCall

\* the caller takes the result of the call
TakeResult ==
    /\ ~Idle
    /\ last' = NoCall
    /\ UNCHANGED <<heap, callerRef, self_coefficients, threads, frames>>

\* the caller assigns into the dictionary it passed in: coefficients[k] = v
CallerSetItem ==
    /\ Idle
    /\ \E k \in Keys, v \in CoefVals :
          heap' = [heap EXCEPT ![callerRef] =
                      [x \in DOMAIN @ \cup {k} |-> IF x = k THEN v ELSE @[x]]]
    /\ UNCHANGED <<callerRef, self_coefficients, last, threads, frames>>

\* the caller deletes from the dictionary it passed in: del coefficients[k]
CallerDelItem ==
    /\ Idle
    /\ \E k \in DOMAIN heap[callerRef] :
          heap' = [heap EXCEPT ![callerRef] = [x \in DOMAIN @ \ {k} |-> @[x]]]
    /\ UNCHANGED <<callerRef, self_coefficients, last, threads, frames>>

CalculateRoi ==
    /\ Idle
    /\ \E v \in Keys \cup {UnknownName}, a \in Amounts :
          last' = Call("calculate_roi", <<v, a>>, calculate_roi(heap[self_coefficients], v, a))
    /\ UNCHANGED <<heap, callerRef, self_coefficients, threads, frames>>

CalculateMargin ==
    /\ Idle
    /\ \E r \in Nums, c \in Nums :
          last' = Call("calculate_margin", <<r, c>>, calculate_margin(r, c))
    /\ UNCHANGED <<heap, callerRef, self_coefficients, threads, frames>>

CalculateGrowthRate ==
    /\ Idle
    /\ \E a \in Nums, b \in Nums :
          last' = Call("calculate_growth_rate", <<a, b>>, calculate_growth_rate(a, b))
    /\ UNCHANGED <<heap, callerRef, self_coefficients, threads, frames>>

CalculateInventoryTurnover ==
    /\ Idle
    /\ \E a \in Nums, b \in Nums :
          last' = Call("calculate_inventory_turnover", <<a, b>>, calculate_inventory_turnover(a, b))
    /\ UNCHANGED <<heap, callerRef, self_coefficients, threads, frames>>

CalculateConversionRate ==
    /\ Idle
    /\ \E a \in Nums, b \in Nums :
          last' = Call("calculate_conversion_rate", <<a, b>>, calculate_conversion_rate(a, b))
    /\ UNCHANGED <<heap, callerRef, self_coefficients, threads, frames>>

CalculateOperatingLeverage ==
    /\ Idle
    /\ \E a \in Nums, b \in Nums :
          last' = Call("calculate_operating_leverage", <<a, b>>, calculate_operating_leverage(a, b))
    /\ UNCHANGED <<heap, callerRef, self_coefficients, threads, frames>>

CalculateQuickRatio ==
    /\ Idle
    /\ \E a \in Nums, b \in Nums, c \in Nums :
          last' = Call("calculate_quick_ratio", <<a, b, c>>, calculate_quick_ratio(a, b, c))
    /\ UNCHANGED <<heap, callerRef, self_coefficients, threads, frames>>

CalculateRoa ==
    /\ Idle
    /\ \E a \in Nums, b \in Nums :
          last' = Call("calculate_roa", <<a, b>>, calculate_roa(a, b))
    /\ UNCHANGED <<heap, callerRef, self_coefficients, threads, frames>>

CalculateChurnRate ==
    /\ Idle
    /\ \E a \in Nums, b \in Nums :
          last' = Call("calculate_churn_rate", <<a, b>>, calculate_churn_rate(a, b))
    /\ UNCHANGED <<heap, callerRef, self_coefficients, threads, frames>>

CalculateRoe ==
    /\ Idle
    /\ \E a \in Nums, b \in Nums :
          last' = Call("calculate_roe", <<a, b>>, calculate_roe(a, b))
    /\ UNCHANGED <<heap, callerRef, self_coefficients, threads, frames>>

CalculateCurrentRatio ==
    /\ Idle
    /\ \E a \in Nums, b \in Nums :
          last' = Call("calculate_current_ratio", <<a, b>>, calculate_current_ratio(a, b))
    /\ UNCHANGED <<heap, callerRef, self_coefficients, threads, frames>>

CalculateCac ==
    /\ Idle
    /\ \E a \in Nums, b \in Nums :
          last' = Call("calculate_cac", <<a, b>>, calculate_cac(a, b))
    /\ UNCHANGED <<heap, callerRef, self_coefficients, threads, frames>>

CalculateCustomerRetentionRate ==
    /\ Idle
    /\ \E a \in Nums, b \in Nums, c \in Nums :
          last' = Call("calculate_customer_retention_rate", <<a, b, c>>, calculate_customer_retention_rate(a, b, c))
    /\ UNCHANGED <<heap, callerRef, self_coefficients, threads, frames>>

CalculateGrossProfitMargin ==
    /\ Idle
    /\ \E a \in Nums, b \in Nums :
          last' = Call("calculate_gross_profit_margin", <<a, b>>, calculate_gross_profit_margin(a, b))
    /\ UNCHANGED <<heap, callerRef, self_coefficients, threads, frames>>

CalculateEps ==
    /\ Idle
    /\ \E a \in Nums, b \in Nums :
          last' = Call("calculate_eps", <<a, b>>, calculate_eps(a, b))
    /\ UNCHANGED <<heap, callerRef, self_coefficients, threads, frames>>

CalculatePeRatio ==
    /\ Idle
    /\ \E a \in Nums, b \in Nums :
          last' = Call("calculate_pe_ratio", <<a, b>>, calculate_pe_ratio(a, b))
    /\ UNCHANGED <<heap, callerRef, self_coefficients, threads, frames>>

CalculateDebtToEquity ==
    /\ Idle
    /\ \E a \in Nums, b \in Nums :
          last' = Call("calculate_debt_to_equity", <<a, b>>, calculate_debt_to_equity(a, b))
    /\ UNCHANGED <<heap, callerRef, self_coefficients, threads, frames>>

CalculateLtvCacRatio ==
    /\ Idle
    /\ \E a \in Nums, b \in Nums :
          last' = Call("calculate_ltv_cac_ratio", <<a, b>>, calculate_ltv_cac_ratio(a, b))
    /\ UNCHANGED <<heap, callerRef, self_coefficients, threads, frames>>

CalculateAov ==
    /\ Idle
    /\ \E a \in Nums, b \in Nums :
          last' = Call("calculate_aov", <<a, b>>, calculate_aov(a, b))
    /\ UNCHANGED <<heap, callerRef, self_coefficients, threads, frames>>

CalculateLeadConversionRate ==
    /\ Idle
    /\ \E a \in Nums, b \in Nums :
          last' = Call("calculate_lead_conversion_rate", <<a, b>>, calculate_lead_conversion_rate(a, b))
    /\ UNCHANGED <<heap, callerRef, self_coefficients, threads, frames>>

CalculateCpl ==
    /\ Idle
    /\ \E a \in Nums, b \in Nums :
          last' = Call("calculate_cpl", <<a, b>>, calculate_cpl(a, b))
    /\ UNCHANGED <<heap, callerRef, self_coefficients, threads, frames>>

CalculateEmployeeTurnoverRate ==
    /\ Idle
    /\ \E a \in Nums, b \in Nums :
          last' = Call("calculate_employee_turnover_rate", <<a, b>>, calculate_employee_turnover_rate(a, b))
    /\ UNCHANGED <<heap, callerRef, self_coefficients, threads, frames>>

MeasureEmployeeProductivity ==
    /\ Idle
    /\ \E a \in Nums, b \in Nums :
          last' = Call("measure_employee_productivity", <<a, b>>, measure_employee_productivity(a, b))
    /\ UNCHANGED <<heap, callerRef, self_coefficients, threads, frames>>

CalculateBreakevenPoint ==
    /\ Idle
    /\ \E a \in FixedCosts, b \in UnitPrices, c \in UnitPrices :
          last' = Call("calculate_breakeven_point", <<a, b, c>>, calculate_breakeven_point(a, b, c))
    /\ UNCHANGED <<heap, callerRef, self_coefficients, threads, frames>>

CalculateCagr ==
    /\ Idle
    /\ \E a \in CagrVals, b \in CagrVals, c \in Periods :
          last' = Call("calculate_cagr", <<a, b, c>>, calculate_cagr(a, b, c))
    /\ UNCHANGED <<heap, callerRef, self_coefficients, threads, frames>>

CalculateNpv ==
    /\ Idle
    /\ \E a \in ListArgs, b \in Rates :
          last' = Call("calculate_npv", <<a, b>>, calculate_npv(a, b))
    /\ UNCHANGED <<heap, callerRef, self_coefficients, threads, frames>>

CalculatePaybackPeriod ==
    /\ Idle
    /\ \E a \in Investments, b \in ListArgs :
          last' = Call("calculate_payback_period", <<a, b>>, calculate_payback_period(a, b))
    /\ UNCHANGED <<heap, callerRef, self_coefficients, threads, frames>>

AnalyzeNps ==
    /\ Idle
    /\ \E a \in Nums, b \in Nums, c \in Nums :
          last' = Call("analyze_nps", <<a, b, c>>, analyze_nps(a, b, c))
    /\ UNCHANGED <<heap, callerRef, self_coefficients, threads, frames>>

CalculateCltv ==
    /\ Idle
    /\ \E a \in PurchaseValues, b \in Frequencies, c \in Lifetimes, m \in Margins :
          last' = Call("calculate_cltv", <<a, b, c, m>>, calculate_cltv(a, b, c, m))
    /\ UNCHANGED <<heap, callerRef, self_coefficients, threads, frames>>

CalculateTimeToMarket ==
    /\ Idle
    /\ \E a \in DateTexts, b \in DateTexts :
          last' = Call("calculate_time_to_market", <<a, b>>, calculate_time_to_market(a, b))
    /\ UNCHANGED <<heap, callerRef, self_coefficients, threads, frames>>

Next ==
    \/ TakeResult
    \/ CallerSetItem
    \/ CallerDelItem
    \/ CalculateRoi
    \/ CalculateMargin
    \/ CalculateGrowthRate
    \/ CalculateInventoryTurnover
    \/ CalculateConversionRate
    \/ CalculateOperatingLeverage
    \/ CalculateQuickRatio
    \/ CalculateRoa
    \/ CalculateChurnRate
    \/ CalculateRoe
    \/ CalculateCurrentRatio
    \/ CalculateCac
    \/ CalculateCustomerRetentionRate
    \/ CalculateGrossProfitMargin
    \/ CalculateEps
    \/ CalculatePeRatio
    \/ CalculateDebtToEquity
    \/ CalculateLtvCacRatio
    \/ CalculateAov
    \/ CalculateLeadConversionRate
    \/ CalculateCpl
    \/ CalculateEmployeeTurnoverRate
    \/ MeasureEmployeeProductivity
    \/ CalculateBreakevenPoint
    \/ CalculateCagr
    \/ CalculateNpv
    \/ CalculatePaybackPeriod
    \/ AnalyzeNps
    \/ CalculateCltv
    \/ CalculateTimeToMarket

Spec == Init /\ [][Next]_vars

-----------------------------------------------------------------------------
(* Several threads calling calculate_roi and calculate_payback_period on   *)
(* the one instance, a step of a call at a time.                           *)

\* the calls the threads make
ThreadRoiArgs == {<<v, a>> : v \in Keys \cup {UnknownName}, a \in {Q(0), Q(3)}}

ThreadPaybackArgs ==
    {<<Q(1000), [is_list |-> TRUE, items |-> <<Q(200), Q(300), Q(500)>>]>>,
     <<Q(1000), [is_list |-> TRUE, items |-> <<Q(100), Q(100)>>]>>,
     <<Q(300), [is_list |-> TRUE, items |-> <<Q(500), Q(-200)>>]>>,
     <<Q(300), [is_list |-> TRUE, items |-> <<>>]>>}

Finish(t, out) ==
    threads' = [threads EXCEPT ![t].pc = "done", ![t].out = out]

Goto(t, pc) ==
    threads' = [threads EXCEPT ![t].pc = pc]

\* thread t calls calculate_roi
ThreadCallRoi(t) ==
    /\ threads[t].pc = "idle"
    /\ \E args \in ThreadRoiArgs :
          threads' = [threads EXCEPT ![t] =
                         [pc |-> "roi_lookup", op |-> "calculate_roi", args |-> args,
                          out |-> [kind |-> "-"], table0 |-> heap[self_coefficients]]]
    /\ frames' = [frames EXCEPT ![FrameOf(t)] = FreshFrame]
    /\ UNCHANGED <<heap, callerRef, self_coefficients, last>>

\* coefficient = self.coefficients[investment_variable], KeyError to ValueError
RoiLookup(t) ==
    /\ threads[t].pc = "roi_lookup"
    /\ LET looked == dict_getitem(heap[self_coefficients], threads[t].args[1])
       IN  IF looked.kind = "raise"
           THEN /\ Finish(t, Raise("ValueError", "not found in coefficients dictionary."))
                /\ UNCHANGED frames
           ELSE /\ Goto(t, "roi_check")
                /\ frames' = [frames EXCEPT ![FrameOf(t)].coefficient = looked.val]
    /\ UNCHANGED <<heap, callerRef, self_coefficients, last>>

\* if investment_amount == 0: raise
RoiCheck(t) ==
    /\ threads[t].pc = "roi_check"
    /\ IF QIsZero(threads[t].args[2])
       THEN Finish(t, Raise("ValueError", "Investment amount cannot be zero."))
       ELSE Goto(t, "roi_compute")
    /\ UNCHANGED <<heap, callerRef, self_coefficients, last, frames>>

\* predicted_increase, roi, return roi
RoiCompute(t) ==
    /\ threads[t].pc = "roi_compute"
    /\ LET investment_amount == threads[t].args[2]
           predicted_increase == FMul(frames[FrameOf(t)].coefficient, investment_amount)
       IN  Finish(t, Return(FMul(FDiv(predicted_increase, investment_amount), Q(100))))
    /\ UNCHANGED <<heap, callerRef, self_coefficients, last, frames>>

\* thread t calls calculate_payback_period
ThreadCallPayback(t) ==
    /\ threads[t].pc = "idle"
    /\ \E args \in ThreadPaybackArgs :
          threads' = [threads EXCEPT ![t] =
                         [pc |-> "pb_guard", op |-> "calculate_payback_period", args |-> args,
                          out |-> [kind |-> "-"], table0 |-> heap[self_coefficients]]]
    /\ frames' = [frames EXCEPT ![FrameOf(t)] = FreshFrame]
    /\ UNCHANGED <<heap, callerRef, self_coefficients, last>>

\* the isinstance / len guard, then cumulative_cash_inflows = 0
PaybackGuard(t) ==
    /\ threads[t].pc = "pb_guard"
    /\ IF ~threads[t].args[2].is_list \/ Len(threads[t].args[2].items) = 0
       THEN /\ Finish(t, Raise("ValueError", "Cash inflows must be a non-empty list."))
            /\ UNCHANGED frames
       ELSE /\ Goto(t, "pb_next")
            /\ frames' = [frames EXCEPT ![FrameOf(t)].cumulative_cash_inflows = Q(0),
                                        ![FrameOf(t)].period = 0]
    /\ UNCHANGED <<heap, callerRef, self_coefficients, last>>

\* the next (period, inflow) of the loop and cumulative_cash_inflows += inflow,
\* or the end of the loop and of the function
PaybackNext(t) ==
    /\ threads[t].pc = "pb_next"
    /\ LET f == frames[FrameOf(t)]
           items == threads[t].args[2].items
       IN  IF f.period >= Len(items)
           THEN /\ Finish(t, Return(None))
                /\ UNCHANGED frames
           ELSE /\ Goto(t, "pb_test")
                /\ frames' = [frames EXCEPT
                                 ![FrameOf(t)].period = f.period + 1,
                                 ![FrameOf(t)].cumulative_cash_inflows =
                                     FAdd(f.cumulative_cash_inflows, items[f.period + 1])]
    /\ UNCHANGED <<heap, callerRef, self_coefficients, last>>

\* if cumulative_cash_inflows >= initial_investment: return period
PaybackTest(t) ==
    /\ threads[t].pc = "pb_test"
    /\ LET f == frames[FrameOf(t)]
       IN  IF QLe(threads[t].args[1], f.cumulative_cash_inflows)
           THEN Finish(t, Return(Q(f.period)))
           ELSE Goto(t, "pb_next")
    /\ UNCHANGED <<heap, callerRef, self_coefficients, last, frames>>

\* the thread takes the result of its call
ThreadTake(t) ==
    /\ threads[t].pc = "done"
    /\ threads' = [threads EXCEPT ![t] = IdleThread]
    /\ UNCHANGED <<heap, callerRef, self_coefficients, last, frames>>

\* the instance of the demonstration block
InitThreads ==
    /\ Init
    /\ heap[self_coefficients] =
           [k \in Keys |-> IF k = "price" THEN Lit(-1, 20) ELSE Lit(1, 10)]

NextThreads ==
    \E t \in Threads :
        \/ ThreadCallRoi(t)
        \/ RoiLookup(t)
        \/ RoiCheck(t)
        \/ RoiCompute(t)
        \/ ThreadCallPayback(t)
        \/ PaybackGuard(t)
        \/ PaybackNext(t)
        \/ PaybackTest(t)
        \/ ThreadTake(t)

SpecThreads == InitThreads /\ [][NextThreads]_vars

-----------------------------------------------------------------------------
(* Vocabulary of the properties *)

\* the failure the documentation calls InvalidArgument is the ValueError the
\* methods raise
InvalidArgument == "ValueError"

IsInvalidArgument(out) == out.kind = "raise" /\ out.exc = InvalidArgument

\* the coefficient dictionary calculate_roi reads
Coefficients == heap[self_coefficients]

\* the exact sum of the first p items
RECURSIVE QSum(_, _)
QSum(items, p) == IF p = 0 THEN Q(0) ELSE QAdd(QSum(items, p - 1), items[p])

Min(S) == CHOOSE x \in S : \A y \in S : x <= y

-----------------------------------------------------------------------------
(* calculate_payback_period *)

PaybackCall == last.op = "calculate_payback_period"

\* the periods whose prefix sum reaches the investment
RecoveredAt(initial_investment, items) ==
    {p \in 1..Len(items) : QLe(initial_investment, QSum(items, p))}

\* C1: for a non-empty list of inflows calculate_payback_period returns the
\* smallest 1-based period p whose prefix sum of inflows is >= the investment,
\* and None when no prefix sum reaches it; (1000, [200,300,500]) gives 3 and
\* (1000, [100,100]) gives None.
C1_PaybackSmallestPeriod ==
    PaybackCall /\ last.args[2].is_list /\ Len(last.args[2].items) > 0 =>
        LET hits == RecoveredAt(last.args[1], last.args[2].items)
        IN  /\ last.out.kind = "return"
            /\ hits = {} => last.out.val = None
            /\ hits # {} => last.out.val = Q(Min(hits))

C1_Witness ==
    /\ PaybackCall
    /\ last.args = <<Q(1000), [is_list |-> TRUE, items |-> <<Q(200), Q(300), Q(500)>>]>>
    /\ last.out = Return(Q(3))

\* C2: calculate_payback_period raises ValueError exactly when the inflows are
\* empty or not a list; for a non-empty list it never raises, and an investment
\* that is never recovered is the returned value None, not a failure.
C2_PaybackFailsOnlyOnEmpty ==
    PaybackCall =>
        LET arg == last.args[2]
            bad == ~arg.is_list \/ Len(arg.items) = 0
        IN  /\ last.out.kind = "raise" <=> bad
            /\ bad => IsInvalidArgument(last.out)
            /\ ~bad /\ RecoveredAt(last.args[1], arg.items) = {} =>
                   last.out = Return(None)

C2_Witness ==
    /\ PaybackCall
    /\ last.args = <<Q(1000), [is_list |-> TRUE, items |-> <<Q(100), Q(100)>>]>>
    /\ last.out = Return(None)

-----------------------------------------------------------------------------
(* The methods that guard a denominator *)

\* whether the denominator the documentation names for the call is zero
DocumentedDenominatorIsZero(c) ==
    CASE c.op \in {"calculate_margin"} -> QIsZero(c.args[1])
      [] c.op \in {"calculate_growth_rate"} -> QIsZero(c.args[1])
      [] c.op \in {"calculate_cagr"} -> QIsZero(c.args[1]) \/ QIsZero(c.args[3])
      [] c.op \in {"calculate_quick_ratio", "calculate_customer_retention_rate"} ->
             QIsZero(c.args[3])
      [] c.op \in {"analyze_nps"} ->
             QIsZero(QAdd(QAdd(c.args[1], c.args[2]), c.args[3]))
      [] c.op \in {"calculate_inventory_turnover", "calculate_conversion_rate",
                   "calculate_operating_leverage", "calculate_roa",
                   "calculate_churn_rate", "calculate_roe",
                   "calculate_current_ratio", "calculate_cac",
                   "calculate_gross_profit_margin", "calculate_eps",
                   "calculate_pe_ratio", "calculate_debt_to_equity",
                   "calculate_ltv_cac_ratio", "calculate_aov",
                   "calculate_lead_conversion_rate", "calculate_cpl",
                   "calculate_employee_turnover_rate",
                   "measure_employee_productivity"} -> QIsZero(c.args[2])

DenominatorOps ==
    {"calculate_margin", "calculate_growth_rate", "calculate_cagr",
     "calculate_quick_ratio", "calculate_customer_retention_rate", "analyze_nps",
     "calculate_inventory_turnover", "calculate_conversion_rate",
     "calculate_operating_leverage", "calculate_roa", "calculate_churn_rate",
     "calculate_roe", "calculate_current_ratio", "calculate_cac",
     "calculate_gross_profit_margin", "calculate_eps", "calculate_pe_ratio",
     "calculate_debt_to_equity", "calculate_ltv_cac_ratio", "calculate_aov",
     "calculate_lead_conversion_rate", "calculate_cpl",
     "calculate_employee_turnover_rate", "measure_employee_productivity"}

FailsExactlyOnZeroDenominator(c) ==
    /\ IsInvalidArgument(c.out) <=> DocumentedDenominatorIsZero(c)
    /\ ~DocumentedDenominatorIsZero(c) => c.out.kind = "return"

\* C3: each of the 24 methods with a documented zero-denominator failure raises
\* ValueError if and only if that denominator is zero, and for every other
\* numeric input returns a value and raises nothing.
C3_FailsExactlyOnZeroDenominator ==
    last.op \in DenominatorOps => FailsExactlyOnZeroDenominator(last)

\* The same for the 23 methods other than calculate_cagr.
FailsExactlyOnZeroDenominatorButCagr ==
    last.op \in DenominatorOps \ {"calculate_cagr"} =>
        FailsExactlyOnZeroDenominator(last)

\* calculate_cagr raises ValueError exactly on a zero initial value or a zero
\* number of periods; otherwise it returns, or lets the ZeroDivisionError of
\* 0.0 ** negative escape (final value 0, negative number of periods).
CagrOutcomes ==
    last.op = "calculate_cagr" =>
        /\ IsInvalidArgument(last.out) <=> DocumentedDenominatorIsZero(last)
        /\ last.out.kind = "raise" /\ ~IsInvalidArgument(last.out) <=>
               /\ ~DocumentedDenominatorIsZero(last)
               /\ QIsZero(last.args[2])
               /\ QLt(last.args[3], Q(0))
        /\ last.out.kind = "raise" /\ ~IsInvalidArgument(last.out) =>
               last.out.exc = "ZeroDivisionError"

-----------------------------------------------------------------------------
(* calculate_roi *)

RoiCall == last.op = "calculate_roi"

RoiKnown == RoiCall /\ last.args[1] \in DOMAIN Coefficients

RoiComputed == RoiKnown /\ ~QIsZero(last.args[2])

\* C4 as stated: for a variable of the table and an amount # 0 calculate_roi
\* returns coefficient * 100 whatever the amount.
C4_RoiIsCoefficientTimes100 ==
    RoiComputed =>
        last.out = Return(FMul(Coefficients[last.args[1]], Q(100)))

\* C4 as amended: the result is coefficient * 100 up to the rounding of the
\* three float operations (relative error at most 4 * 2^-Prec), exactly
\* coefficient * 100 when coefficient * amount is representable, and the same
\* for amount and -amount.
C4_RoiWithinRounding ==
    RoiComputed =>
        LET coefficient == Coefficients[last.args[1]]
            amount == last.args[2]
            exact == QMul(coefficient, Q(100))
        IN  /\ last.out.kind = "return"
            /\ QLe(QMul(QAbs(QSub(last.out.val, exact)), Q(Pow2(Prec - 2))),
                   QAbs(exact))
            /\ FMul(coefficient, amount) = QMul(coefficient, amount) =>
                   last.out.val = FMul(coefficient, Q(100))
            /\ last.out = calculate_roi(Coefficients, last.args[1], QNeg(amount))

\* an amount for which the division does not give the coefficient back
C4_Witness ==
    /\ RoiComputed
    /\ last.out.kind = "return"
    /\ last.out.val # FMul(Coefficients[last.args[1]], Q(100))

-----------------------------------------------------------------------------
(* calculate_breakeven_point *)

BreakevenCall == last.op = "calculate_breakeven_point"

\* C6: calculate_breakeven_point fails (ValueError) if and only if
\* price <= variable cost, equality included; when price > variable cost it
\* returns fixed costs / (price - variable cost); (1000, 10, 50) gives 25.
C6_BreakevenFailsIffPriceNotAbove ==
    BreakevenCall =>
        LET fixed_costs == last.args[1]
            variable_cost == last.args[2]
            price == last.args[3]
        IN  /\ last.out.kind = "raise" <=> QLe(price, variable_cost)
            /\ last.out.kind = "raise" => IsInvalidArgument(last.out)
            /\ QLt(variable_cost, price) =>
                   last.out = Return(Fl(QDiv(fixed_costs, QSub(price, variable_cost))))
            /\ last.args = <<Q(1000), Q(10), Q(50)>> => last.out = Return(Q(25))

C6_Witness ==
    /\ BreakevenCall
    /\ last.args = <<Q(1000), Q(10), Q(50)>>
    /\ last.out = Return(Q(25))

-----------------------------------------------------------------------------
(* calculate_npv *)

NpvCall == last.op = "calculate_npv"

\* C7: at discount rate 0 calculate_npv returns the plain sum of the cash
\* flows ([100,200,300] gives 600), and the cash flow at index 0 is not
\* discounted: a list of one cash flow returns that cash flow at every
\* admissible rate.
C7_NpvZeroRateIsSum ==
    NpvCall /\ last.out.kind = "return" =>
        LET items == last.args[1].items
        IN  /\ QIsZero(last.args[2]) => last.out.val = QSum(items, Len(items))
            /\ Len(items) = 1 => last.out.val = items[1]
            /\ last.out.val =
                   npv_sum(items, last.args[2], 1, items[1])

C7_Witness ==
    /\ NpvCall
    /\ last.args = <<[is_list |-> TRUE, items |-> <<Q(100), Q(200), Q(300)>>], Q(0)>>
    /\ last.out = Return(Q(600))

-----------------------------------------------------------------------------
(* calculate_margin *)

MarginCall == last.op = "calculate_margin"

\* C9 as stated: for revenue # 0 the margin is 100 when cost = 0 and negative
\* whenever cost > revenue.
C9_MarginNegativeWhenCostAbove ==
    MarginCall /\ ~QIsZero(last.args[1]) =>
        /\ last.out.kind = "return"
        /\ QIsZero(last.args[2]) => last.out.val = Q(100)
        /\ QLt(last.args[1], last.args[2]) => QLt(last.out.val, Q(0))

\* C9 as amended: for revenue # 0 the margin is 100 when cost = 0; it is
\* negative whenever cost > revenue > 0, and positive whenever cost > revenue
\* and revenue < 0.
C9_MarginSignFollowsRevenue ==
    MarginCall /\ ~QIsZero(last.args[1]) =>
        LET revenue == last.args[1]
            cost == last.args[2]
        IN  /\ last.out.kind = "return"
            /\ QIsZero(cost) => last.out.val = Q(100)
            /\ QLt(revenue, cost) /\ QLt(Q(0), revenue) => QLt(last.out.val, Q(0))
            /\ QLt(revenue, cost) /\ QLt(revenue, Q(0)) => QLt(Q(0), last.out.val)

\* a negative revenue with cost 0: cost > revenue and the margin is 100
C9_Witness ==
    /\ MarginCall
    /\ QLt(last.args[1], Q(0))
    /\ QIsZero(last.args[2])
    /\ last.out = Return(Q(100))

-----------------------------------------------------------------------------
(* The coefficient dictionary *)

\* C10: after construction nothing changes the coefficients calculate_roi
\* reads: no method call, and no later change the caller makes to the mapping
\* it passed in.
C10_CoefficientsNeverChange ==
    [][heap'[self_coefficients'] = heap[self_coefficients]]_vars

\* No method call changes the dictionary or the reference the instance holds.
MethodsLeaveCoefficients ==
    [][~Idle' => UNCHANGED <<heap, self_coefficients>>]_vars

-----------------------------------------------------------------------------
(* calculate_cltv *)

CltvCall == last.op = "calculate_cltv"

\* C12: calculate_cltv fails (ValueError) if and only if the profit margin is
\* outside [0, 100], the margins 0 and 100 being accepted; otherwise it returns
\* avgPurchase * frequency * lifetime * margin / 100 (up to the rounding of
\* its float operations), which is 0 when the margin is 0 and
\* avgPurchase * frequency * lifetime when the margin is 100.
C12_CltvFailsIffMarginOutside ==
    CltvCall =>
        LET margin == last.args[4]
            product == QMul(QMul(last.args[1], last.args[2]), last.args[3])
            exact == QDiv(QMul(product, margin), Q(100))
            outside == QLt(margin, Q(0)) \/ QLt(Q(100), margin)
        IN  /\ last.out.kind = "raise" <=> outside
            /\ outside => IsInvalidArgument(last.out)
            /\ ~outside =>
                   /\ QLe(QMul(QAbs(QSub(last.out.val, exact)), Q(Pow2(Prec - 3))),
                          QAbs(exact))
                   /\ last.out.val =
                          FMul(FMul(FMul(last.args[1], last.args[2]), last.args[3]),
                               FDiv(margin, Q(100)))
                   /\ margin = Q(0) => last.out.val = Q(0)
                   /\ margin = Q(100) => last.out.val = product

\* the margin 100 is accepted and gives the whole product
C12_Witness ==
    /\ CltvCall
    /\ last.args = <<Q(100), Q(2), Q(5), Q(100)>>
    /\ last.out = Return(Q(1000))

-----------------------------------------------------------------------------
(* calculate_time_to_market *)

TimeToMarketCall == last.op = "calculate_time_to_market"

\* the text is YYYY-MM-DD: ten characters, digits around two "-", and the
\* digits name a day of the calendar
WellFormedDate(text) ==
    /\ Len(text) = 10
    /\ \A i \in {1, 2, 3, 4, 6, 7, 9, 10} : text[i] \in Digits
    /\ text[5] = "-"
    /\ text[8] = "-"
    /\ LET y == 1000 * DigitVal(text[1]) + 100 * DigitVal(text[2])
                + 10 * DigitVal(text[3]) + DigitVal(text[4])
           m == 10 * DigitVal(text[6]) + DigitVal(text[7])
           d == 10 * DigitVal(text[9]) + DigitVal(text[10])
       IN  /\ y >= 1
           /\ m \in 1..12
           /\ d \in 1..DaysInMonth(y, m)

\* the date a well-formed text names
DateOf(text) ==
    [year |-> 1000 * DigitVal(text[1]) + 100 * DigitVal(text[2])
              + 10 * DigitVal(text[3]) + DigitVal(text[4]),
     month |-> 10 * DigitVal(text[6]) + DigitVal(text[7]),
     day |-> 10 * DigitVal(text[9]) + DigitVal(text[10])]

\* two well-formed dates give launch - start in days, and the swapped call
\* gives the negated count
TimeToMarketOfWellFormed ==
    TimeToMarketCall /\ WellFormedDate(last.args[1]) /\ WellFormedDate(last.args[2]) =>
        /\ last.out = Return(Q(Ordinal(DateOf(last.args[2])) - Ordinal(DateOf(last.args[1]))))
        /\ calculate_time_to_market(last.args[2], last.args[1]) = Return(QNeg(last.out.val))
        /\ last.args = <<<<"2", "0", "2", "2", "-", "0", "1", "-", "0", "1">>, <<"2", "0", "2", "2", "-", "0", "1", "-", "3", "0">>>> =>
               last.out = Return(Q(29))

\* C13: calculate_time_to_market returns launch - start in days for two
\* well-formed YYYY-MM-DD dates (29 for 2022-01-01 to 2022-01-30, negated when
\* the arguments are swapped), and fails with ValueError, returning nothing,
\* whenever either date text is malformed.
C13_TimeToMarketFailsOnMalformed ==
    /\ TimeToMarketOfWellFormed
    /\ TimeToMarketCall
       /\ (~WellFormedDate(last.args[1]) \/ ~WellFormedDate(last.args[2])) =>
           IsInvalidArgument(last.out)

\* a malformed text fails with ValueError unless strptime reads it as a date:
\* the texts it accepts beyond YYYY-MM-DD have a month or day of one digit
\* (or a day written as a space and a digit)
TimeToMarketFailsOnUnparsed ==
    TimeToMarketCall =>
        /\ last.out.kind = "raise" <=>
               strptime(last.args[1]).kind = "raise" \/ strptime(last.args[2]).kind = "raise"
        /\ last.out.kind = "raise" => IsInvalidArgument(last.out)
        /\ \A i \in {1, 2} :
               WellFormedDate(last.args[i]) => strptime(last.args[i]) = Return(DateOf(last.args[i]))
        /\ \A i \in {1, 2} :
               strptime(last.args[i]).kind = "return" /\ ~WellFormedDate(last.args[i]) =>
                   Len(last.args[i]) < 10 \/ last.args[i][9] = " "

-----------------------------------------------------------------------------
(* Calls from several threads *)

\* what the call of thread t returns or raises when it runs alone
AloneOutcome(t) ==
    IF threads[t].op = "calculate_roi"
    THEN calculate_roi(threads[t].table0, threads[t].args[1], threads[t].args[2])
    ELSE calculate_payback_period(threads[t].args[1], threads[t].args[2])

\* C11: whatever the interleaving of the calls of several threads, each call
\* ends with the outcome it has when run alone, and the coefficient table is
\* the same throughout every call as when the call began.
C11_CallsAreIndependent ==
    \A t \in Threads :
        /\ threads[t].pc # "idle" => heap[self_coefficients] = threads[t].table0
        /\ threads[t].pc = "done" => threads[t].out = AloneOutcome(t)

\* a payback call has returned 3 while another thread is inside the loop of
\* its own payback call
C11_Witness ==
    \E t, u \in Threads :
        /\ t # u
        /\ threads[t].pc = "done"
        /\ threads[t].op = "calculate_payback_period"
        /\ threads[t].out = Return(Q(3))
        /\ threads[u].pc = "pb_test"
        /\ frames[FrameOf(u)].period = 2

====
